---- MODULE Spec2Model ----
(***************************************************************************)
(* A model of the marketdata package: the limit order book                 *)
(* (package/orderbook.py), the offer and trade types                       *)
(* (package/basic_types.py) and the trade history (package/trades.py).     *)
(*                                                                         *)
(* Decimal numbers are pairs (c, e) standing for c * 10^e, kept with no    *)
(* trailing zero in c, so that numeric equality is equality of pairs (as   *)
(* it is for Decimal's == and hash, which the sorted containers use).      *)
(* A SortedDict is the sequence of its (key, value) entries in key order.  *)
(***************************************************************************)
EXTENDS Integers, Sequences, FiniteSets

(* ------------------------------ bounds -------------------------------- *)

\* The global token counter is followed up to this value.
MaxTokens == 3
\* Longest list handed to add_many.
MaxBatch == 2
\* Most calls a caller makes on the History it constructed.
MaxScript == 3

\* The (base_amount, counter_amount) pairs offers are built from. A zero
\* amount is outside the offer invariants and is there because the order
\* book does not validate what it is given.
BidAmounts == {<<1, 9000>>, <<1, 9100>>, <<1, 0>>, <<0, 9000>>}
AskAmounts == {<<1, 9200>>, <<1, 9050>>, <<3, 27151>>, <<0, 0>>}

BookIds == {"A", "B"}

(* ----------------------- decimal arithmetic --------------------------- *)

\* decimal_getcontext().prec = 8
Prec == 8

RECURSIVE Pow10(_)
Pow10(n) == IF n = 0 THEN 1 ELSE 10 * Pow10(n - 1)

RECURSIVE NumDigits(_)
NumDigits(n) == IF n = 0 THEN 0 ELSE 1 + NumDigits(n \div 10)

RECURSIVE Normalize(_, _)
Normalize(c, e) ==
    IF c = 0 THEN [c |-> 0, e |-> 0]
    ELSE IF c % 10 = 0 THEN Normalize(c \div 10, e + 1)
    ELSE [c |-> c, e |-> e]

\* Long division: digits are produced until the division is exact or the
\* coefficient has Prec significant digits.
RECURSIVE LongDiv(_, _, _, _)
LongDiv(coef, rem, exp, d) ==
    IF rem = 0 \/ NumDigits(coef) >= Prec
    THEN [coef |-> coef, rem |-> rem, exp |-> exp]
    ELSE LongDiv(coef * 10 + ((rem * 10) \div d), (rem * 10) % d, exp - 1, d)

\* ROUND_HALF_EVEN, the default rounding of the decimal context.
RoundHalfEven(coef, rem, d) ==
    IF 2 * rem > d \/ (2 * rem = d /\ coef % 2 = 1) THEN coef + 1 ELSE coef

\* n / d for integers n >= 0, d > 0 (n \div d of fewer than Prec digits),
\* rounded to Prec significant digits.
DecimalDivide(n, d) ==
    LET q == LongDiv(n \div d, n % d, 0, d)
    IN  Normalize(RoundHalfEven(q.coef, q.rem, d), q.exp)

\* Unary minus; -0 is 0.
DecimalNeg(x) == [c |-> 0 - x.c, e |-> x.e]

DecimalAbs(x) == [c |-> IF x.c < 0 THEN 0 - x.c ELSE x.c, e |-> x.e]

\* x < y for x, y > 0: by the position of the leading digit, then by the
\* digits.
MagnitudeLess(x, y) ==
    LET ax == NumDigits(x.c) + x.e
        ay == NumDigits(y.c) + y.e
    IN  IF ax # ay THEN ax < ay
        ELSE x.c * Pow10(Prec - NumDigits(x.c)) < y.c * Pow10(Prec - NumDigits(y.c))

DecimalLess(x, y) ==
    IF x.c = 0 THEN y.c > 0
    ELSE IF y.c = 0 THEN x.c < 0
    ELSE IF x.c < 0 /\ y.c > 0 THEN TRUE
    ELSE IF x.c > 0 /\ y.c < 0 THEN FALSE
    ELSE IF x.c > 0 THEN MagnitudeLess(x, y)
    ELSE MagnitudeLess(DecimalAbs(y), DecimalAbs(x))

DecimalZero == [c |-> 0, e |-> 0]

(* ------------------------------ offers -------------------------------- *)

\* BuyOffer (is_bid = True) and SellOffer (is_bid = False).
Offer(is_bid, base_amount, counter_amount) ==
    [is_bid |-> is_bid, base_amount |-> base_amount, counter_amount |-> counter_amount]

Offers ==
    {Offer(TRUE, a[1], a[2]) : a \in BidAmounts} \cup
    {Offer(FALSE, a[1], a[2]) : a \in AskAmounts}

\* The offer invariants of the data model: both amounts positive.
ValidOffer(offer) == offer.base_amount > 0 /\ offer.counter_amount > 0

\* What evaluating offer.price raises: x / 0 is DivisionByZero and 0 / 0 is
\* InvalidOperation, both trapped by the default decimal context.
PriceRaises(offer) ==
    IF offer.base_amount # 0 THEN "None"
    ELSE IF offer.counter_amount = 0 THEN "InvalidOperation"
    ELSE "DivisionByZero"

\* Offer.price
Price(offer) == DecimalDivide(offer.counter_amount, offer.base_amount)

(* ------------------------------ tokens -------------------------------- *)

\* Mutant: the counter hands out the same value again.
NextTokenIdStuck(id) == id

\* next(_offer_token_id) leaves the counter at the following value.
NextTokenId(id) == id + 1

\* Mutant: the token carries no sequence number of its own.
OfferTokenNoSeq(offer, id) ==
    [price |-> IF offer.is_bid THEN DecimalNeg(Price(offer)) ELSE Price(offer),
     time  |-> 0]

\* Mutant: the price of a bid is not negated.
OfferTokenUnsigned(offer, id) == [price |-> Price(offer), time |-> id]

\* OfferToken.__new__ with the value drawn from _offer_token_id.
OfferToken(offer, id) ==
    [price |-> IF offer.is_bid THEN DecimalNeg(Price(offer)) ELSE Price(offer),
     time  |-> id]

\* Mutant: the sign test is the wrong way round.
TokenIsBidInverted(token) == DecimalLess(DecimalZero, token.price)

\* OfferToken.is_bid
TokenIsBid(token) == DecimalLess(token.price, DecimalZero)

\* Mutant: among equal prices the newer token sorts first.
TokenLessNewestFirst(s, t) ==
    \/ DecimalLess(s.price, t.price)
    \/ s.price = t.price /\ s.time > t.time

\* Tuple comparison of (price, time).
TokenLess(s, t) ==
    \/ DecimalLess(s.price, t.price)
    \/ s.price = t.price /\ s.time < t.time

(* --------------------------- sorted dict ------------------------------ *)

Entry(token, offer) == [token |-> token, offer |-> offer]

Keys(sd) == {sd[i].token : i \in 1..Len(sd)}

\* Mutant: a key is found by its price alone.
HasKeyByPrice(sd, key) == \E k \in Keys(sd) : k.price = key.price

HasKey(sd, key) == key \in Keys(sd)

InsertAt(s, i, x) == SubSeq(s, 1, i) \o <<x>> \o SubSeq(s, i + 1, Len(s))

\* Mutant: a new key goes to the end, whatever its order.
SetItemAppend(sd, key, value) ==
    IF HasKey(sd, key)
    THEN [i \in 1..Len(sd) |->
            IF sd[i].token = key THEN Entry(key, value) ELSE sd[i]]
    ELSE Append(sd, Entry(key, value))

\* sd[key] = value: the value of a key already present is replaced in
\* place, a new key is inserted at its bisect_right position.
SetItem(sd, key, value) ==
    IF HasKey(sd, key)
    THEN [i \in 1..Len(sd) |->
            IF sd[i].token = key THEN Entry(key, value) ELSE sd[i]]
    ELSE LET pos == Cardinality({i \in 1..Len(sd) : ~TokenLess(key, sd[i].token)})
         IN  InsertAt(sd, pos, Entry(key, value))

\* dict.update with a list of pairs: in list order, later pairs win.
RECURSIVE DictUpdate(_, _)
DictUpdate(d, pairs) ==
    IF pairs = <<>> THEN d
    ELSE LET p == Head(pairs)
             d1 == IF HasKey(d, p.token)
                   THEN [i \in 1..Len(d) |-> IF d[i].token = p.token THEN p ELSE d[i]]
                   ELSE Append(d, p)
         IN  DictUpdate(d1, Tail(pairs))

\* The entries of a set in ascending key order.
RECURSIVE SortEntries(_)
SortEntries(S) ==
    IF S = {} THEN <<>>
    ELSE LET m == CHOOSE x \in S : \A y \in S : y = x \/ TokenLess(x.token, y.token)
         IN  <<m>> \o SortEntries(S \ {m})

\* Mutant: the entries stay in dict order, the key list is not sorted.
UpdateUnsorted(sd, pairs) == DictUpdate(sd, pairs)

\* SortedDict.update: the dict is updated and the key list is sorted anew.
Update(sd, pairs) ==
    LET d == DictUpdate(sd, pairs)
    IN  SortEntries({d[i] : i \in 1..Len(d)})

\* Mutant: the first entry goes, whatever its key.
DelItemFirst(sd, key) == IF sd = <<>> THEN sd ELSE Tail(sd)

\* Mutant: every entry at the key's price goes.
DelItemByPrice(sd, key) == SelectSeq(sd, LAMBDA en : en.token.price # key.price)

\* del sd[key] of a key that is present.
DelItem(sd, key) == SelectSeq(sd, LAMBDA en : en.token # key)

(* ------------------------------ trades -------------------------------- *)

\* The attributes class Trade defines: its two fields and one property.
\* (Those it has from NamedTuple and tuple hold no sort_by_time either.)
TradeAttributes == {"time", "offer", "is_bid"}

\* Offer objects as a Trade holds them. Offer defines no __eq__, so two
\* offers are equal only when they are one object: id is the object.
TradeOffers ==
    {[id |-> 1, value |-> Offer(TRUE, 1, 9000)],
     [id |-> 2, value |-> Offer(TRUE, 1, 9000)]}

\* Times of day, 09:00 as 900.
Trade(time, offer) == [time |-> time, offer |-> offer]

Trades ==
    {Trade(1000, o) : o \in {x \in TradeOffers : x.id = 1}} \cup
    {Trade(900, o) : o \in {x \in TradeOffers : x.id = 1}} \cup
    {Trade(930, o) : o \in TradeOffers}

\* The key the history sorts by. Trade has no sort_by_time: this is the key
\* the design gives, the timestamp.
SortByTime(trade) == trade.time

\* SortedListWithKey.add: after the entries whose key is not greater.
ListAdd(trades, trade) ==
    LET pos == Cardinality({i \in 1..Len(trades) :
                               SortByTime(trades[i]) <= SortByTime(trade)})
    IN  InsertAt(trades, pos, trade)

RECURSIVE ListAddEach(_, _)
ListAddEach(trades, values) ==
    IF values = <<>> THEN trades
    ELSE ListAddEach(ListAdd(trades, Head(values)), Tail(values))

\* sorted(values, key): stable, the first of the least keys first.
RECURSIVE StableSort(_)
StableSort(values) ==
    IF values = <<>> THEN <<>>
    ELSE LET m == CHOOSE i \in 1..Len(values) :
                    /\ \A j \in 1..Len(values) :
                          SortByTime(values[i]) <= SortByTime(values[j])
                    /\ \A j \in 1..(i - 1) :
                          SortByTime(values[j]) # SortByTime(values[i])
         IN  <<values[m]>> \o
             StableSort(SubSeq(values, 1, m - 1) \o SubSeq(values, m + 1, Len(values)))

\* SortedListWithKey.update: the values are sorted; a batch that is small
\* beside the list is added value by value, another is sorted in with it.
ListUpdate(trades, values) ==
    LET sorted == StableSort(values)
    IN  IF trades # <<>> /\ Len(sorted) * 4 < Len(trades)
        THEN ListAddEach(trades, sorted)
        ELSE StableSort(trades \o sorted)

\* SortedListWithKey.remove: the first entry equal to the trade goes.
ListRemove(trades, trade) ==
    LET m == CHOOSE i \in 1..Len(trades) :
                 /\ trades[i] = trade
                 /\ \A j \in 1..(i - 1) : trades[j] # trade
    IN  SubSeq(trades, 1, m - 1) \o SubSeq(trades, m + 1, Len(trades))

\* The calls on a History.
HistoryOps ==
    {[op |-> "add", trades |-> <<t>>] : t \in Trades} \cup
    {[op |-> "add_many", trades |-> ts] :
        ts \in UNION {[1..n -> Trades] : n \in 0..MaxBatch}} \cup
    {[op |-> "remove", trades |-> <<t>>] : t \in Trades} \cup
    {[op |-> "clear", trades |-> <<>>], [op |-> "last", trades |-> <<>>]}

Scripts == UNION {[1..n -> HistoryOps] : n \in 0..MaxScript}

NoTrade == Trade(0, [id |-> 0, value |-> Offer(TRUE, 0, 0)])

NoHistory == [exists |-> FALSE, market |-> "None", trades |-> <<>>]

(* ------------------------------ state --------------------------------- *)

VARIABLES
    offer_token_id,  \* the next value of the module-level itertools.count()
    books,           \* the Orderbook instances: market, asks, bids
    issued,          \* the tokens returned to callers so far, oldest first
    ret,             \* the last order book call: its arguments and how it ended
    hret             \* the run of a caller of History and how it ended

vars == <<offer_token_id, books, issued, ret, hret>>

Markets == [A |-> "BTC/USD", B |-> "ETH/USD"]

NoToken == [price |-> DecimalZero, time |-> 0 - 1]

Sides(book) == [asks |-> book.asks, bids |-> book.bids]

Call(op, b, offers, token, raised, tokens) ==
    [op |-> op, book |-> b, offers |-> offers, token |-> token,
     raised |-> raised, tokens |-> tokens, before |-> Sides(books[b])]

\* Orderbook.__init__
NewOrderbook(market) == [market |-> market, asks |-> <<>>, bids |-> <<>>]

Init ==
    /\ offer_token_id = 0
    /\ books = [b \in BookIds |-> NewOrderbook(Markets[b])]
    /\ issued = <<>>
    /\ ret = [op |-> "init", book |-> "A", offers |-> <<>>, token |-> NoToken,
              raised |-> "None", tokens |-> <<>>,
              before |-> [asks |-> <<>>, bids |-> <<>>]]
    /\ hret = [ran |-> FALSE, market |-> "None", script |-> <<>>,
               raised |-> "None", at |-> 0, history |-> NoHistory,
               last |-> NoTrade]

(* --------------------------- order book ------------------------------- *)

\* Mutant: only the asks are emptied.
BookClearAsksOnly(book) == [book EXCEPT !.asks = <<>>]

\* Orderbook.clear
BookClear(book) == [book EXCEPT !.asks = <<>>, !.bids = <<>>]

\* Mutant: the test of the side is inverted.
BookAddSwapped(book, token, offer) ==
    IF offer.is_bid
    THEN [book EXCEPT !.asks = SetItem(@, token, offer)]
    ELSE [book EXCEPT !.bids = SetItem(@, token, offer)]

\* The insertion of Orderbook.add, the token given.
BookAdd(book, token, offer) ==
    IF offer.is_bid
    THEN [book EXCEPT !.bids = SetItem(@, token, offer)]
    ELSE [book EXCEPT !.asks = SetItem(@, token, offer)]

\* The loop of add_many: a token per offer, drawn in list order, until an
\* offer's price raises. The counter keeps the values drawn before a raise.
RECURSIVE DeriveAll(_, _, _)
DeriveAll(offers, id, acc) ==
    IF offers = <<>> THEN [raised |-> "None", id |-> id, pairs |-> acc]
    ELSE IF PriceRaises(Head(offers)) # "None"
    THEN [raised |-> PriceRaises(Head(offers)), id |-> id, pairs |-> acc]
    ELSE DeriveAll(Tail(offers), NextTokenId(id),
                   Append(acc, Entry(OfferToken(Head(offers), id), Head(offers))))

\* The two bulk insertions of add_many.
BookAddMany(book, pairs) ==
    [book EXCEPT
        !.asks = Update(@, SelectSeq(pairs, LAMBDA p : ~p.offer.is_bid)),
        !.bids = Update(@, SelectSeq(pairs, LAMBDA p : p.offer.is_bid))]

\* The map Orderbook.remove looks in.
RemoveSide(token) == IF TokenIsBid(token) THEN "bids" ELSE "asks"

\* Mutant: a missing key is passed over in silence.
RemoveRaisesNever(book, token) == "None"

\* Orderbook.remove: KeyError when the map has no such key.
RemoveRaises(book, token) ==
    IF HasKey(book[RemoveSide(token)], token) THEN "None" ELSE "KeyError"

BookRemove(book, token) ==
    IF RemoveSide(token) = "bids"
    THEN [book EXCEPT !.bids = DelItem(@, token)]
    ELSE [book EXCEPT !.asks = DelItem(@, token)]

TokensOf(pairs) == [i \in 1..Len(pairs) |-> pairs[i].token]

Issue(b, tokens) == issued \o [i \in 1..Len(tokens) |-> [token |-> tokens[i], book |-> b]]

Clear(b) ==
    /\ books' = [books EXCEPT ![b] = BookClear(@)]
    /\ ret' = Call("clear", b, <<>>, NoToken, "None", <<>>)
    /\ UNCHANGED <<offer_token_id, issued, hret>>

Add(b, offer) ==
    /\ offer_token_id < MaxTokens
    /\ IF PriceRaises(offer) # "None"
       THEN /\ ret' = Call("add", b, <<offer>>, NoToken, PriceRaises(offer), <<>>)
            /\ UNCHANGED <<offer_token_id, books, issued>>
       ELSE LET token == OfferToken(offer, offer_token_id)
            IN  /\ offer_token_id' = NextTokenId(offer_token_id)
                /\ books' = [books EXCEPT ![b] = BookAdd(@, token, offer)]
                /\ issued' = Issue(b, <<token>>)
                /\ ret' = Call("add", b, <<offer>>, NoToken, "None", <<token>>)
    /\ UNCHANGED hret

\* Mutant: each offer is inserted as soon as it has its token, so those
\* before an offer whose price raises stay in the book.
AddManyPartial(b, offers) ==
    /\ offer_token_id + Len(offers) <= MaxTokens
    /\ LET d == DeriveAll(offers, offer_token_id, <<>>)
       IN  /\ offer_token_id' = d.id
           /\ books' = [books EXCEPT ![b] = BookAddMany(@, d.pairs)]
           /\ IF d.raised # "None"
              THEN /\ ret' = Call("add_many", b, offers, NoToken, d.raised, <<>>)
                   /\ UNCHANGED issued
              ELSE /\ issued' = Issue(b, TokensOf(d.pairs))
                   /\ ret' = Call("add_many", b, offers, NoToken, "None", TokensOf(d.pairs))
    /\ UNCHANGED hret

AddMany(b, offers) ==
    /\ offer_token_id + Len(offers) <= MaxTokens
    /\ LET d == DeriveAll(offers, offer_token_id, <<>>)
       IN  /\ offer_token_id' = d.id
           /\ IF d.raised # "None"
              THEN /\ ret' = Call("add_many", b, offers, NoToken, d.raised, <<>>)
                   /\ UNCHANGED <<books, issued>>
              ELSE /\ books' = [books EXCEPT ![b] = BookAddMany(@, d.pairs)]
                   /\ issued' = Issue(b, TokensOf(d.pairs))
                   /\ ret' = Call("add_many", b, offers, NoToken, "None", TokensOf(d.pairs))
    /\ UNCHANGED hret

Remove(b, token) ==
    /\ IF RemoveRaises(books[b], token) # "None"
       THEN /\ ret' = Call("remove", b, <<>>, token, RemoveRaises(books[b], token), <<>>)
            /\ UNCHANGED books
       ELSE /\ books' = [books EXCEPT ![b] = BookRemove(@, token)]
            /\ ret' = Call("remove", b, <<>>, token, "None", <<>>)
    /\ UNCHANGED <<offer_token_id, issued, hret>>

Batches == UNION {[1..n -> Offers] : n \in 0..MaxBatch}

IssuedTokens == {issued[i].token : i \in 1..Len(issued)}

Next ==
    \/ \E b \in BookIds : Clear(b)
    \/ \E b \in BookIds, offer \in Offers : Add(b, offer)
    \/ \E b \in BookIds, offers \in Batches : AddMany(b, offers)
    \/ \E b \in BookIds, token \in IssuedTokens : Remove(b, token)

Spec == Init /\ [][Next]_vars

(* ------------------------------ history ------------------------------- *)

\* History.__init__: Trade.sort_by_time is looked up on the class.
HistoryInitRaises == IF "sort_by_time" \in TradeAttributes THEN "None" ELSE "AttributeError"

NewHistory(market) == [exists |-> TRUE, market |-> market, trades |-> <<>>]

\* What a call on a history raises: last on no trades, remove of a trade
\* the list has no equal of.
OpRaises(h, call) ==
    IF call.op = "last" /\ h.trades = <<>> THEN "IndexError"
    ELSE IF call.op = "remove"
            /\ \A i \in 1..Len(h.trades) : h.trades[i] # call.trades[1]
    THEN "ValueError"
    ELSE "None"

\* History.add, add_many, remove and clear; last changes nothing.
Apply(h, call) ==
    CASE call.op = "add" -> [h EXCEPT !.trades = ListAdd(@, call.trades[1])]
      [] call.op = "add_many" -> [h EXCEPT !.trades = ListUpdate(@, call.trades)]
      [] call.op = "remove" -> [h EXCEPT !.trades = ListRemove(@, call.trades[1])]
      [] call.op = "clear" -> [h EXCEPT !.trades = <<>>]
      [] call.op = "last" -> h

\* The calls of a script from its k-th on; an exception ends the run.
RECURSIVE RunFrom(_, _, _, _, _)
RunFrom(market, script, k, h, last) ==
    IF k > Len(script)
    THEN [ran |-> TRUE, market |-> market, script |-> script, raised |-> "None",
          at |-> 0, history |-> h, last |-> last]
    ELSE IF OpRaises(h, script[k]) # "None"
    THEN [ran |-> TRUE, market |-> market, script |-> script,
          raised |-> OpRaises(h, script[k]), at |-> k, history |-> h, last |-> last]
    ELSE RunFrom(market, script, k + 1, Apply(h, script[k]),
                 IF script[k].op = "last" THEN h.trades[Len(h.trades)] ELSE last)

\* A caller constructs History(market) and makes the calls of script on it.
\* When the constructor raises there is no history to call.
HistoryRun(market, script) ==
    /\ ~hret.ran
    /\ hret' = IF HistoryInitRaises # "None"
               THEN [ran |-> TRUE, market |-> market, script |-> script,
                     raised |-> HistoryInitRaises, at |-> 0,
                     history |-> NoHistory, last |-> NoTrade]
               ELSE RunFrom(market, script, 1, NewHistory(market), NoTrade)
    /\ UNCHANGED <<offer_token_id, books, issued, ret>>

HistoryNext ==
    /\ ~hret.ran
    /\ \E b \in BookIds, script \in Scripts : HistoryRun(Markets[b], script)

HistorySpec == Init /\ [][HistoryNext]_vars

(* ------------------------- order book claims --------------------------- *)

SeqOfPrices(side) == [i \in 1..Len(side) |-> Price(side[i].offer)]

Dec(n) == DecimalDivide(n, 1)

\* The place of a token in the order of issue.
IssuedAt(token) == CHOOSE k \in 1..Len(issued) : issued[k].token = token

HasEntry(book, token) == HasKey(book.bids, token) \/ HasKey(book.asks, token)

C3_EqualPriceByArrival ==
    \A b \in BookIds : \A side \in {books[b].bids, books[b].asks} :
        \A i, j \in 1..Len(side) :
            (i < j /\ Price(side[i].offer) = Price(side[j].offer))
                => IssuedAt(side[i].token) < IssuedAt(side[j].token)

\* Two offers of equal price rest on one side, an admission to the other
\* book lies between theirs, and the later one came in an add_many batch.
C3_Witness ==
    \E b \in BookIds : \E side \in {books[b].bids, books[b].asks} :
        /\ Len(side) = 2
        /\ Price(side[1].offer) = Price(side[2].offer)
        /\ \E k \in 1..Len(issued) :
              /\ IssuedAt(side[1].token) < k /\ k < IssuedAt(side[2].token)
              /\ issued[k].book # b
        /\ ret.op = "add_many" /\ ret.book = b /\ side[2].token \in
              {ret.tokens[i] : i \in 1..Len(ret.tokens)}

\* C4: a remove of a token that has no entry in the book raises KeyError and
\* changes no book.
C4_RemoveAbsentRaises ==
    [][(ret'.op = "remove" /\ ~HasEntry(books[ret'.book], ret'.token))
          => (ret'.raised = "KeyError" /\ books' = books)]_vars

\* A remove of a token once issued by this book (since removed or cleared)
\* has raised KeyError, and so has one of a token issued by the other book.
C4_Witness ==
    /\ ret.op = "remove" /\ ret.raised = "KeyError"
    /\ ~HasEntry(books[ret.book], ret.token)
    /\ issued[IssuedAt(ret.token)].book = ret.book
    /\ \E b \in BookIds : books[b].bids # <<>> /\ books[b].asks # <<>>

\* C5: when add(offer) of an offer with positive amounts returned t, a
\* remove(t) on that book next succeeds and leaves the book's bids and asks
\* as they were before the add; and a remove that succeeded, repeated next,
\* raises KeyError and changes no book.
C5_AddRemoveRoundTrip ==
    [][/\ (/\ ret.op = "add" /\ ret.raised = "None" /\ ValidOffer(ret.offers[1])
           /\ ret'.op = "remove" /\ ret'.book = ret.book
           /\ ret'.token = ret.tokens[1])
          => (ret'.raised = "None" /\ Sides(books'[ret.book]) = ret.before)
       /\ (/\ ret.op = "remove" /\ ret.raised = "None"
           /\ ret'.op = "remove" /\ ret'.book = ret.book
           /\ ret'.token = ret.token)
          => (ret'.raised = "KeyError" /\ books' = books)]_vars

\* The token issued last, to a book that held offers on both sides, was
\* removed again and a second remove of it raised KeyError.
C5_Witness ==
    /\ ret.op = "remove" /\ ret.raised = "KeyError"
    /\ issued # <<>>
    /\ ret.token = issued[Len(issued)].token
    /\ ret.book = issued[Len(issued)].book
    /\ Sides(books[ret.book]) = ret.before
    /\ books[ret.book].bids # <<>> /\ books[ret.book].asks # <<>>
    /\ TokenIsBid(ret.token)

\* add(o1); ...; add(on) on a book, the counter starting at id.
RECURSIVE AddEach(_, _, _)
AddEach(book, offers, id) ==
    IF offers = <<>> THEN book
    ELSE AddEach(BookAdd(book, OfferToken(Head(offers), id), Head(offers)),
                 Tail(offers), NextTokenId(id))

\* The offer a book stores under a token on the side of offer.is_bid.
StoredAs(book, token, offer) ==
    LET side == IF offer.is_bid THEN book.bids ELSE book.asks
    IN  \E i \in 1..Len(side) : side[i] = Entry(token, offer)

\* C6: an add_many that returns gives one token per offer, the i-th offer is
\* stored under the i-th token, and the book's bids and asks are those that
\* add of each offer in list order gives from the same book and counter.
C6_AddManyAsAdds ==
    [][(ret'.op = "add_many" /\ ret'.raised = "None")
          => LET b == ret'.book
             IN  /\ Len(ret'.tokens) = Len(ret'.offers)
                 /\ \A i \in 1..Len(ret'.offers) :
                        StoredAs(books'[b], ret'.tokens[i], ret'.offers[i])
                 /\ Sides(books'[b]) =
                        Sides(AddEach(books[b], ret'.offers, offer_token_id))]_vars

\* An add_many of a bid and an ask, in a book that already held an offer.
C6_Witness ==
    /\ ret.op = "add_many" /\ ret.raised = "None"
    /\ Len(ret.tokens) = 2
    /\ ret.offers[1].is_bid # ret.offers[2].is_bid
    /\ ret.before.asks # <<>> \/ ret.before.bids # <<>>

\* C7: no token is a key of both maps of a book, every offer in bids is a
\* bid and every offer in asks is an ask.
C7_SidesDisjoint ==
    \A b \in BookIds :
        /\ Keys(books[b].bids) \cap Keys(books[b].asks) = {}
        /\ \A i \in 1..Len(books[b].bids) : books[b].bids[i].offer.is_bid
        /\ \A i \in 1..Len(books[b].asks) : ~books[b].asks[i].offer.is_bid

\* A book holds offers on both sides, one of them a bid at price 0.
C7_Witness ==
    \E b \in BookIds :
        /\ books[b].asks # <<>>
        /\ \E i \in 1..Len(books[b].bids) :
              Price(books[b].bids[i].offer) = DecimalZero

\* C8: of two tokens issued, the later has the greater sequence number,
\* whichever books and sides they went to and whatever was cleared or
\* removed in between; every number issued is below the counter.
C8_SequenceIncreases ==
    /\ \A i, j \in 1..Len(issued) :
          i < j => /\ issued[i].token.time < issued[j].token.time
                   /\ issued[i].token # issued[j].token
    /\ \A i \in 1..Len(issued) : issued[i].token.time < offer_token_id

\* Tokens went to both books and both sides, and after a clear dropped the
\* first the same book was issued another.
C8_Witness ==
    /\ Len(issued) = 3
    /\ issued[1].book = issued[3].book /\ issued[2].book # issued[1].book
    /\ TokenIsBid(issued[1].token) /\ ~TokenIsBid(issued[2].token)
    /\ ~HasEntry(books[issued[1].book], issued[1].token)
    /\ HasEntry(books[issued[3].book], issued[3].token)
    /\ issued[1].token.price = issued[3].token.price

(* --------------------------- history claims ---------------------------- *)

Times(trades) == [i \in 1..Len(trades) |-> trades[i].time]

IsAddOnly(script) == \A k \in 1..Len(script) : script[k].op = "add"

\* C9: after a run of add, add_many and remove calls on a History it
\* constructed, the caller holds a history whose trades iterate in
\* non-decreasing time; after add at 10:00, 09:00, 09:30 they iterate as
\* 09:00, 09:30, 10:00.
C9_TradesTimeSorted ==
    (/\ hret.ran
     /\ hret.script # <<>>
     /\ \A k \in 1..Len(hret.script) :
           hret.script[k].op \in {"add", "add_many", "remove"})
        => /\ hret.history.exists
           /\ \A i, j \in 1..Len(hret.history.trades) :
                 i < j => hret.history.trades[i].time <= hret.history.trades[j].time
           /\ (IsAddOnly(hret.script)
               /\ [k \in 1..Len(hret.script) |-> hret.script[k].trades[1].time]
                     = <<1000, 900, 930>>)
                 => Times(hret.history.trades) = <<900, 930, 1000>>

\* C10: when a caller has added trades to a History it constructed and then
\* read last, last returned a trade at least as late as every trade held.
C10_LastIsLatest ==
    (/\ hret.ran
     /\ Len(hret.script) >= 2
     /\ IsAddOnly(SubSeq(hret.script, 1, Len(hret.script) - 1))
     /\ hret.script[Len(hret.script)].op = "last")
        => /\ hret.raised = "None"
           /\ hret.last # NoTrade
           /\ \A i \in 1..Len(hret.history.trades) :
                 hret.history.trades[i].time <= hret.last.time

\* The trades the add calls of a script hand over, in call order.
AddedTrades(script) == [k \in 1..Len(script) |-> script[k].trades[1]]

\* C11: last on a history that holds no trades (new, cleared, or with its
\* one trade removed again) raises IndexError, returns no trade and leaves
\* the history empty.
C11_LastOnEmptyRaises ==
    (/\ hret.ran
     /\ \/ hret.script = <<[op |-> "last", trades |-> <<>>]>>
        \/ hret.script = <<[op |-> "clear", trades |-> <<>>],
                           [op |-> "last", trades |-> <<>>]>>
        \/ \E t \in Trades :
              hret.script = <<[op |-> "add", trades |-> <<t>>],
                              [op |-> "remove", trades |-> <<t>>],
                              [op |-> "last", trades |-> <<>>]>>)
        => /\ hret.raised = "IndexError"
           /\ hret.at = Len(hret.script)
           /\ hret.last = NoTrade
           /\ hret.history.exists
           /\ hret.history.trades = <<>>

\* Equality of two trades by value: the same time and offers of the same
\* side and amounts, whether or not they are one object.
ValueEq(t, u) == t.time = u.time /\ t.offer.value = u.offer.value

Count(trades, P(_)) == Cardinality({i \in 1..Len(trades) : P(trades[i])})

\* C12: remove(trade) after some adds takes out one entry equal to the
\* trade by value and leaves every other entry; with no such entry it
\* raises ValueError and leaves the trades as the adds left them.
C12_RemoveByValue ==
    (/\ hret.ran
     /\ Len(hret.script) >= 2
     /\ IsAddOnly(SubSeq(hret.script, 1, Len(hret.script) - 1))
     /\ hret.script[Len(hret.script)].op = "remove")
        => LET added == AddedTrades(SubSeq(hret.script, 1, Len(hret.script) - 1))
               t == hret.script[Len(hret.script)].trades[1]
               held == hret.history.trades
           IN  /\ hret.history.exists
               /\ IF \E i \in 1..Len(added) : ValueEq(added[i], t)
                  THEN /\ hret.raised = "None"
                       /\ Len(held) = Len(added) - 1
                       /\ Count(held, LAMBDA x : ValueEq(x, t))
                             = Count(added, LAMBDA x : ValueEq(x, t)) - 1
                       /\ \A u \in Trades :
                             ~ValueEq(u, t) =>
                                Count(held, LAMBDA x : x = u) = Count(added, LAMBDA x : x = u)
                  ELSE /\ hret.raised = "ValueError"
                       /\ Len(held) = Len(added)
                       /\ \A u \in Trades :
                             Count(held, LAMBDA x : x = u) = Count(added, LAMBDA x : x = u)

\* C13: add_many(trades) after some adds leaves the trades in the order
\* that add of each trade in list order leaves them in.
C13_AddManyAsAdds ==
    (/\ hret.ran
     /\ hret.script # <<>>
     /\ IsAddOnly(SubSeq(hret.script, 1, Len(hret.script) - 1))
     /\ hret.script[Len(hret.script)].op = "add_many")
        => /\ hret.raised = "None"
           /\ hret.history.exists
           /\ hret.history.trades =
                 ListAddEach(<<>>,
                     AddedTrades(SubSeq(hret.script, 1, Len(hret.script) - 1))
                        \o hret.script[Len(hret.script)].trades)

\* C17: constructing a History for a market gives a history of that market
\* with no trades, and add and add_many calls on it then all return and
\* leave it holding the trades handed over.
C17_HistoryConstructible ==
    hret.ran
        => /\ hret.history.exists
           /\ hret.history.market = hret.market
           /\ hret.script = <<>> => (hret.raised = "None" /\ hret.history.trades = <<>>)
           /\ (\A k \in 1..Len(hret.script) : hret.script[k].op \in {"add", "add_many"})
                 => /\ hret.raised = "None"
                    /\ \A u \in Trades :
                          Count(hret.history.trades, LAMBDA x : x = u) =
                             Cardinality({<<k, i>> \in (1..Len(hret.script)) \X (1..MaxBatch) :
                                 /\ i <= Len(hret.script[k].trades)
                                 /\ hret.script[k].trades[i] = u})

(* ----------------------- further order book claims --------------------- *)

Size(book) == Len(book.bids) + Len(book.asks)

\* C14: an add, add_many or remove that raises leaves the bids and asks of
\* every book as they were: an add_many that raises at its k-th offer has
\* inserted none of the k-1 offers before it.
C14_RaiseChangesNothing ==
    [][(ret'.op \in {"add", "add_many", "remove"} /\ ret'.raised # "None")
          => (books' = books /\ issued' = issued)]_vars

\* An add_many raised at its second offer after the first was given a
\* token, and the book, which held offers, is as it was.
C14_Witness ==
    /\ ret.op = "add_many" /\ ret.raised = "DivisionByZero"
    /\ Len(ret.offers) = 2
    /\ PriceRaises(ret.offers[1]) = "None"
    /\ ret.before.bids # <<>>
    /\ Sides(books[ret.book]) = ret.before
    /\ offer_token_id > Len(issued)

\* C15: clear leaves the book with no bids and no asks and with its market,
\* and leaves the other book alone; a token issued that a book does not hold
\* is not held by it later either; and a remove on the cleared book next, of
\* any token issued so far, raises KeyError and changes no book.
C15_ClearEmptiesBook ==
    [][/\ ret'.op = "clear"
          => /\ books'[ret'.book] = NewOrderbook(books[ret'.book].market)
             /\ \A b \in BookIds \ {ret'.book} : books'[b] = books[b]
       /\ \A b \in BookIds : \A t \in IssuedTokens :
             ~HasEntry(books[b], t) => ~HasEntry(books'[b], t)
       /\ (ret.op = "clear" /\ ret'.op = "remove" /\ ret'.book = ret.book)
          => (ret'.raised = "KeyError" /\ books' = books)]_vars

\* A clear emptied a book that held bids and asks under tokens it had
\* issued; the book has its market.
C15_Witness ==
    /\ ret.op = "clear"
    /\ ret.before.bids # <<>> /\ ret.before.asks # <<>>
    /\ Size(books[ret.book]) = 0
    /\ books[ret.book].market = Markets[ret.book]
    /\ \E i \in 1..Len(issued) :
          issued[i].book = ret.book /\ RemoveRaises(books[ret.book], issued[i].token) = "KeyError"

\* C16: the token of a resting offer with positive amounts has the side of
\* the offer, and a remove of it finds its entry.
C16_TokenSideIsOfferSide ==
    \A b \in BookIds : \A side \in {books[b].bids, books[b].asks} :
        \A i \in 1..Len(side) :
            ValidOffer(side[i].offer)
                => /\ TokenIsBid(side[i].token) = side[i].offer.is_bid
                   /\ RemoveRaises(books[b], side[i].token) = "None"

\* A book holds a bid and an ask with positive amounts.
C16_Witness ==
    \E b \in BookIds :
        /\ \E i \in 1..Len(books[b].bids) : ValidOffer(books[b].bids[i].offer)
        /\ \E i \in 1..Len(books[b].asks) : ValidOffer(books[b].asks[i].offer)

\* s without its m-th element.
Without(s, m) == SubSeq(s, 1, m - 1) \o SubSeq(s, m + 1, Len(s))

\* C18: a remove that returns takes the entry of its token out of one map of
\* the book and leaves the other entries of that map in place and in order,
\* the other map and the other book as they were.
C18_RemoveTakesOneEntry ==
    [][(ret'.op = "remove" /\ ret'.raised = "None")
          => LET old == books[ret'.book]
                 new == books'[ret'.book]
             IN  /\ \/ /\ new.asks = old.asks
                       /\ \E m \in 1..Len(old.bids) :
                             /\ old.bids[m].token = ret'.token
                             /\ new.bids = Without(old.bids, m)
                    \/ /\ new.bids = old.bids
                       /\ \E m \in 1..Len(old.asks) :
                             /\ old.asks[m].token = ret'.token
                             /\ new.asks = Without(old.asks, m)
                 /\ new.market = old.market
                 /\ \A b \in BookIds \ {ret'.book} : books'[b] = books[b]]_vars

\* A remove took the entry between two others out of the bids of a book.
C18_Witness ==
    /\ ret.op = "remove" /\ ret.raised = "None"
    /\ Len(ret.before.bids) = 3
    /\ ret.before.bids[2].token = ret.token
    /\ books[ret.book].bids = <<ret.before.bids[1], ret.before.bids[3]>>

\* C19: every admission that returns adds one entry per offer under tokens
\* of its own, also for offers of equal value; a remove that returns takes
\* one entry; clear takes all; a call that raises, and a call on another
\* book, leaves the number of entries.
C19_EntriesCountAdmissions ==
    [][\A b \in BookIds :
          Size(books'[b]) =
             IF b # ret'.book \/ ret'.raised # "None" THEN Size(books[b])
             ELSE IF ret'.op = "clear" THEN 0
             ELSE IF ret'.op = "remove" THEN Size(books[b]) - 1
             ELSE Size(books[b]) +
                  Cardinality({ret'.tokens[i] : i \in 1..Len(ret'.offers)})]_vars

\* One offer was handed to add_many twice and rests under two tokens.
C19_Witness ==
    /\ ret.op = "add_many" /\ ret.raised = "None"
    /\ Len(ret.offers) = 2
    /\ ret.offers[1] = ret.offers[2]
    /\ ret.tokens[1] # ret.tokens[2]
    /\ StoredAs(books[ret.book], ret.tokens[1], ret.offers[1])
    /\ StoredAs(books[ret.book], ret.tokens[2], ret.offers[2])
    /\ Size(books[ret.book]) = Size(ret.before) + 2

\* C20: a remove, on one book, of a token issued by the other raises
\* KeyError and changes no book.
C20_ForeignTokenNotFound ==
    [][(ret'.op = "remove" /\ issued[IssuedAt(ret'.token)].book # ret'.book)
          => (ret'.raised = "KeyError" /\ books' = books)]_vars

\* A remove of the other book's token raised KeyError on a book that holds
\* an offer of the token's price on the token's side.
C20_Witness ==
    /\ ret.op = "remove" /\ ret.raised = "KeyError"
    /\ issued[IssuedAt(ret.token)].book # ret.book
    /\ HasEntry(books[issued[IssuedAt(ret.token)].book], ret.token)
    /\ \E k \in Keys(books[ret.book][RemoveSide(ret.token)]) :
          k.price = ret.token.price

====
